---- MODULE Spec2Model ----
(***************************************************************************)
(* test_python_example of readme_examples.py: the request, the stream      *)
(* consumer stream_searchify_response (the for loop over                   *)
(* response.iter_lines()), and the citation extraction and lookup that     *)
(* follow it.                                                              *)
(*                                                                         *)
(* JSON values are tagged records; JSON strings are sequences of           *)
(* characters, so that the regular expression of the citation markers is   *)
(* computed character by character.  A line of the stream is the           *)
(* characters in front of its JSON payload, and the payload.               *)
(***************************************************************************)
EXTENDS Integers, Sequences, FiniteSets, TLC

VARIABLES
    pc,               \* where test_python_example is: "start", "reading" (at
                      \* iter_lines()), "after" (a pass of the loop is over),
                      \* "returned", "resolving", "passed", "failed"
    op,               \* the statement executed last
    status_code,      \* response.status_code (0 before the request)
    requests_issued,  \* how many times requests.post was called (line 34)
    transport,        \* the connection under response: "none" before the
                      \* request, "open", "released"
    line,             \* the loop variable line (line 40)
    data,             \* data (line 42)
    full_text,        \* full_text (lines 37, 45)
    citations,        \* citations (lines 38, 50)
    prev_text,        \* full_text when the current pass began
    prev_citations,   \* citations when the current pass began
    result,           \* the value stream_searchify_response returned
    exit,             \* the return statement taken: "isDone" (56), "closed" (58)
    err,              \* the exception caught at line 75
    citation_matches, \* citation_matches (line 64)
    idx,              \* position of the loop of line 67 in citation_matches
    printed,          \* the citations printed at line 70
    shadow,           \* the locals of the same loop run on the stream without
                      \* its ignorable lines
    js,               \* the locals of stream_searchify_response_js_style
                      \* (lines 98-119) run on the same response
    extract,          \* the locals of the loop of test_citation_extraction
                      \* (lines 258-272) run on the same response
    stream,           \* the lines response.iter_lines() yields to
                      \* test_response_format
    pos,              \* how many of them the loop of line 199 has taken
    chunk_count       \* chunk_count (lines 198, 202)

vars == <<pc, op, status_code, requests_issued, transport, line, data, full_text, citations, prev_text,
          prev_citations, result, exit, err, citation_matches, idx, printed, shadow,
          js, extract, stream, pos, chunk_count>>

\* Most search results in one event of the modelled streams.
MaxResults == 2
\* Longest text the citation extraction is enumerated over (SpecResolve).
MaxTextLen == 6
\* Longest stream test_response_format is run on (SpecFormat).
MaxStream == 4

-----------------------------------------------------------------------------
(* JSON values, as json.loads builds them *)

Absent == [t |-> "absent"]
JNull == [t |-> "null"]
JBool(b) == [t |-> "bool", v |-> b]
JStr(s) == [t |-> "str", v |-> s]
JList(s) == [t |-> "list", v |-> s]
JObj(f) == [t |-> "obj", v |-> f]

\* A dict holding the fields of f that are present.
Dict(f) == [k \in {x \in DOMAIN f : f[x] /= Absent} |-> f[k]]

EmptyDict == Dict([none |-> Absent])

\* dict.get(k, default)
Get(d, k, default) == IF k \in DOMAIN d THEN d[k] ELSE default

\* Python truthiness of a JSON value.
Truthy(j) ==
    CASE j.t = "null" -> FALSE
      [] j.t = "bool" -> j.v
      [] j.t = "str" -> j.v /= <<>>
      [] j.t = "list" -> j.v /= <<>>
      [] j.t = "obj" -> DOMAIN j.v /= {}

\* d[k] = v on a dict.
Put(d, k, v) == [x \in (DOMAIN d) \cup {k} |-> IF x = k THEN v ELSE d[x]]

-----------------------------------------------------------------------------
(* The streams the server can send *)

TextA == <<"[", "1", "]">>
TextB == <<"x", "[", "7", "]", "[", "1", "]">>
\* "[" and "]" around U+0663, ARABIC-INDIC DIGIT THREE.
TextC == <<"[", "U+0663", "]">>

Id1 == JStr(<<"1">>)
Id7 == JStr(<<"7">>)
TitleA == JStr(<<"A">>)
TitleB == JStr(<<"B">>)
UrlU == JStr(<<"u">>)

SearchResult(id, title, url) == Dict([id |-> id, title |-> title, url |-> url])

\* Two results of id "1" (the second without a title), one of id "7", and
\* one without an id.
Results ==
    { SearchResult(Id1, TitleA, UrlU), SearchResult(Id1, Absent, UrlU),
      SearchResult(Id7, TitleB, UrlU), SearchResult(Absent, TitleA, UrlU) }

SeqsUpTo(S, n) == UNION {[1..k -> S] : k \in 0..n}

TextValues == {Absent, JNull, JStr(TextA), JStr(TextB), JStr(TextC)}
ResultsValues == {Absent, JNull} \cup {JList(s) : s \in SeqsUpTo(Results, MaxResults)}
DoneValues == {Absent, JBool(FALSE), JBool(TRUE)}

StreamEvent(text, results, done) ==
    Dict([updatedText |-> text, search_results |-> results, isDone |-> done])

Events == {StreamEvent(t, s, d) : t \in TextValues, s \in ResultsValues, d \in DoneValues}

NoPayload == [t |-> "none"]
BadJson == [t |-> "bad"]

Payloads == {NoPayload, BadJson, JList(<<>>)} \cup {JObj(e) : e \in Events}

DataPrefix == <<"d", "a", "t", "a", ":", " ">>

Line(chars, payload) == [chars |-> chars, payload |-> payload]

\* A blank keep-alive line, a comment line, and a line "data:{...}" that
\* lacks the space of the prefix.
OtherLines ==
    { Line(<<>>, NoPayload), Line(<<":", "k">>, NoPayload),
      Line(<<"d", "a", "t", "a", ":">>,
           JObj(StreamEvent(JStr(TextB), JList(<<>>), JBool(TRUE)))) }

Lines == {Line(DataPrefix, p) : p \in Payloads} \cup OtherLines

-----------------------------------------------------------------------------
(* stream_searchify_response: one pass of the for loop *)

NoLine == [t |-> "noline"]
NoData == [t |-> "nodata"]
NoResult == [t |-> "noresult"]
NoError == "none"
DecodeError == [t |-> "JSONDecodeError"]

\* bytes.startswith.  The payloads begin with no character of the prefix,
\* so the characters in front of the payload decide it.
StartsWith(l, prefix) ==
    /\ Len(l.chars) >= Len(prefix)
    /\ SubSeq(l.chars, 1, Len(prefix)) = prefix

\* Truthiness of the bytes of a line: the line is not empty.
LineTruthy(l) == l.chars /= <<>> \/ l.payload /= NoPayload

\* The prefix test with the space of the prefix forgotten.
IsPayloadLine_NoSpace(l) == LineTruthy(l) /\ StartsWith(l, <<"d", "a", "t", "a", ":">>)

\* if line and line.startswith(b'data: ')
IsPayloadLine(l) == LineTruthy(l) /\ StartsWith(l, DataPrefix)

\* line[6:]
Slice6(l) == Line(SubSeq(l.chars, 7, Len(l.chars)), l.payload)

\* json.loads: leading blanks are skipped; no document, or a broken one,
\* raises JSONDecodeError.
json_loads(b) ==
    IF \/ \E i \in 1..Len(b.chars) : b.chars[i] /= " "
       \/ b.payload.t \in {"none", "bad"}
    THEN DecodeError
    ELSE b.payload

\* The text appended to the text held so far.
NewText_Append(old, d) ==
    LET new == Get(d, "updatedText", JStr(<<>>))
    IN  IF old.t = "str" /\ new.t = "str" THEN JStr(old.v \o new.v) ELSE new

\* full_text = data.get('updatedText', '')
NewText(old, d) == Get(d, "updatedText", JStr(<<>>))

\* The same loop with citations.setdefault(result['id'], result): the first
\* result of an id is kept.
RECURSIVE Upsert_FirstWins(_, _)
Upsert_FirstWins(cit, rs) ==
    IF rs = <<>> THEN [citations |-> cit, err |-> NoError]
    ELSE LET r == Head(rs)
         IN  IF "id" \notin DOMAIN r
             THEN [citations |-> cit, err |-> "KeyError"]
             ELSE IF r["id"] \in DOMAIN cit
             THEN Upsert_FirstWins(cit, Tail(rs))
             ELSE Upsert_FirstWins(Put(cit, r["id"], r), Tail(rs))

\* for result in ...: citations[result['id']] = result, up to the first
\* result without an id (KeyError).
RECURSIVE Upsert(_, _)
Upsert(cit, rs) ==
    IF rs = <<>> THEN [citations |-> cit, err |-> NoError]
    ELSE LET r == Head(rs)
         IN  IF "id" \notin DOMAIN r
             THEN [citations |-> cit, err |-> "KeyError"]
             ELSE Upsert(Put(cit, r["id"], r), Tail(rs))

\* The registry rebuilt from the results of the current event alone.
StoreResults_Rebuild(cit, d) ==
    IF Truthy(Get(d, "search_results", JNull))
    THEN Upsert(EmptyDict, d["search_results"].v)
    ELSE [citations |-> EmptyDict, err |-> NoError]

\* The loop over data['search_results'] without the if in front of it.
StoreResults_NoGuard(cit, d) ==
    IF "search_results" \notin DOMAIN d THEN [citations |-> cit, err |-> "KeyError"]
    ELSE IF d["search_results"].t /= "list" THEN [citations |-> cit, err |-> "TypeError"]
    ELSE Upsert(cit, d["search_results"].v)

\* if data.get('search_results'): for result in data['search_results']: ...
StoreResults(cit, d) ==
    IF Truthy(Get(d, "search_results", JNull))
    THEN Upsert(cit, d["search_results"].v)
    ELSE [citations |-> cit, err |-> NoError]

\* The completion test that never ends the loop.
IsDoneEvent_Never(d) == FALSE

\* if data.get('isDone')
IsDoneEvent(d) == Truthy(Get(d, "isDone", JNull))

\* full_text[:100] of the print: None has no slice (TypeError).
Sliceable(text) == text.t \in {"str", "list"}

\* return {"text": full_text, "citations": citations} inside the loop
ReturnOnDone(text, cit) == [text |-> text, citations |-> cit]

\* The return after the loop that drops what was accumulated.
ReturnOnClose_Empty(text, cit) == [text |-> JStr(<<>>), citations |-> EmptyDict]

\* return {"text": full_text, "citations": citations} after the loop
ReturnOnClose(text, cit) == [text |-> text, citations |-> cit]

\* The locals of the consumer as one record.
Locals ==
    [pc |-> pc, data |-> data, full_text |-> full_text, citations |-> citations,
     result |-> result, exit |-> exit, err |-> err]

\* An exception leaves the function: test_python_example catches it and
\* returns False.
Raise(st, e) == [st EXCEPT !.pc = "failed", !.err = e]

\* The body of the for loop on one line.
Consume(st, l) ==
    IF ~IsPayloadLine(l) THEN st
    ELSE LET parsed == json_loads(Slice6(l))
         IN  IF parsed = DecodeError THEN Raise(st, "JSONDecodeError")
             ELSE IF parsed.t /= "obj"
             THEN Raise([st EXCEPT !.data = parsed], "AttributeError")
             ELSE LET d == parsed.v
                      text == NewText(st.full_text, d)
                      stored == StoreResults(st.citations, d)
                      now == [st EXCEPT !.data = parsed, !.full_text = text,
                                        !.citations = stored.citations]
                  IN  IF stored.err /= NoError THEN Raise(now, stored.err)
                      ELSE IF ~IsDoneEvent(d) THEN now
                      ELSE IF ~Sliceable(text) THEN Raise(now, "TypeError")
                      ELSE [now EXCEPT !.pc = "returned", !.exit = "isDone",
                                       !.result = ReturnOnDone(text, stored.citations)]

\* The body of the for loop of stream_searchify_response_js_style: line by
\* line the statements of stream_searchify_response.
ConsumeJs(st, l) == Consume(st, l)

\* The body of the for loop of test_citation_extraction: the same statements
\* up to the test of isDone, which is followed by a break and no print; the
\* text and registry the loop ended with are what the test goes on with.
ConsumeExtract(st, l) ==
    IF ~IsPayloadLine(l) THEN st
    ELSE LET parsed == json_loads(Slice6(l))
         IN  IF parsed = DecodeError THEN Raise(st, "JSONDecodeError")
             ELSE IF parsed.t /= "obj"
             THEN Raise([st EXCEPT !.data = parsed], "AttributeError")
             ELSE LET d == parsed.v
                      text == NewText(st.full_text, d)
                      stored == StoreResults(st.citations, d)
                      now == [st EXCEPT !.data = parsed, !.full_text = text,
                                        !.citations = stored.citations]
                  IN  IF stored.err /= NoError THEN Raise(now, stored.err)
                      ELSE IF ~IsDoneEvent(d) THEN now
                      ELSE [now EXCEPT !.pc = "returned", !.exit = "isDone",
                                       !.result = [text |-> text,
                                                   citations |-> stored.citations]]

\* The for loop ends because the transport closed.
EndOfStream(st) ==
    [st EXCEPT !.pc = "returned", !.exit = "closed",
               !.result = ReturnOnClose(st.full_text, st.citations)]

-----------------------------------------------------------------------------
(* re.findall(r'\[(\d+)\]', text) *)

AsciiDigits == {"0", "1", "2", "3", "4", "5", "6", "7", "8", "9"}
\* \d of a str pattern also matches the other decimal digits of Unicode.
OtherDecimalDigits == {"U+0663"}
IsDigit(c) == c \in AsciiDigits \cup OtherDecimalDigits

\* \d in the place of \d+: one digit at most.
DigitRunEnd_One(s, i) == IF i <= Len(s) /\ IsDigit(s[i]) THEN i + 1 ELSE i

\* \d+ is greedy: the index after the run of digits that starts at i.
RECURSIVE DigitRunEnd(_, _)
DigitRunEnd(s, i) ==
    IF i <= Len(s) /\ IsDigit(s[i]) THEN DigitRunEnd(s, i + 1) ELSE i

\* The index of the "]" closing a match that starts at i, or 0.
MatchAt(s, i) ==
    IF s[i] /= "[" THEN 0
    ELSE LET e == DigitRunEnd(s, i + 1)
         IN  IF e > i + 1 /\ e <= Len(s) /\ s[e] = "]" THEN e ELSE 0

\* The non-overlapping matches from left to right, from index i on.
RECURSIVE FindallFrom(_, _)
FindallFrom(s, i) ==
    IF i > Len(s) THEN <<>>
    ELSE LET e == MatchAt(s, i)
         IN  IF e = 0 THEN FindallFrom(s, i + 1)
             ELSE <<SubSeq(s, i + 1, e - 1)>> \o FindallFrom(s, e + 1)

\* The matches with the repeated ones dropped.
RECURSIVE Dedup(_)
Dedup(ms) ==
    IF ms = <<>> THEN <<>>
    ELSE LET rest == Dedup(SubSeq(ms, 1, Len(ms) - 1))
             m == ms[Len(ms)]
         IN  IF \E k \in 1..Len(rest) : rest[k] = m THEN rest ELSE Append(rest, m)

findall_Dedup(s) == Dedup(FindallFrom(s, 1))

findall(s) == FindallFrom(s, 1)

-----------------------------------------------------------------------------
(* test_python_example *)

StatusCodes == {200, 304, 404}

\* A raise_for_status() that raises for no status.
RaiseForStatus_Never(code) == FALSE

\* response.raise_for_status() raises HTTPError: requests does so for the
\* client and server error codes.
RaiseForStatus(code) == 400 <= code /\ code < 600

\* The connection once stream_searchify_response is left.  A response opened
\* with stream=True gives its connection back when its body has been read
\* to the end; the function never calls response.close(), so when it is left
\* earlier the connection is given back only if and when the response
\* object is finalised.
TransportAfterExit(at_eof) == IF at_eof THEN {"released"} ELSE {"open", "released"}

Init ==
    /\ pc = "start"
    /\ op = "Init"
    /\ status_code = 0
    /\ requests_issued = 0
    /\ transport = "none"
    /\ line = NoLine
    /\ data = NoData
    /\ full_text = JStr(<<>>)
    /\ citations = EmptyDict
    /\ prev_text = NoData
    /\ prev_citations = NoData
    /\ result = NoResult
    /\ exit = "none"
    /\ err = NoError
    /\ citation_matches = <<>>
    /\ idx = 0
    /\ printed = <<>>
    /\ shadow = Locals
    /\ js = Locals
    /\ extract = Locals
    /\ stream = <<>>
    /\ pos = 0
    /\ chunk_count = 0

\* response = requests.post(...); response.raise_for_status();
\* full_text = ""; citations = {}
Post ==
    /\ pc = "start"
    /\ op' = "Post"
    /\ UNCHANGED <<stream, pos, chunk_count>>
    /\ \E code \in StatusCodes :
         /\ status_code' = code
         /\ IF RaiseForStatus(code)
            THEN /\ pc' = "failed" /\ err' = "HTTPError"
                 /\ transport' \in TransportAfterExit(FALSE)
            ELSE /\ pc' = "reading" /\ err' = err
                 /\ transport' = "open"
    /\ requests_issued' = requests_issued + 1
    /\ full_text' = JStr(<<>>)
    /\ citations' = EmptyDict
    /\ shadow' = [shadow EXCEPT !.pc = pc', !.err = err']
    /\ js' = [js EXCEPT !.pc = pc', !.err = err']
    /\ extract' = [extract EXCEPT !.pc = pc', !.err = err']
    /\ UNCHANGED <<line, data, prev_text, prev_citations, result, exit,
                   citation_matches, idx, printed>>

\* The line is ignorable by the wording of the framing rule: it is empty
\* or does not begin with 'data: '.
Ignorable(l) ==
    \/ l.chars = <<>> /\ l.payload = NoPayload
    \/ ~(Len(l.chars) >= 6 /\ SubSeq(l.chars, 1, 6) = DataPrefix)

\* iter_lines() yields a line and the loop body runs on it.  The shadow is
\* the same consumer on the stream without its ignorable lines.
ReadLine ==
    /\ pc = "reading"
    /\ op' = "ReadLine"
    /\ UNCHANGED <<stream, pos, chunk_count>>
    /\ \E l \in Lines :
         \E n \in {Consume(Locals, l)} :
             /\ line' = l
             /\ pc' = IF n.pc = "reading" THEN "after" ELSE n.pc
             /\ data' = n.data
             /\ full_text' = n.full_text
             /\ citations' = n.citations
             /\ result' = n.result
             /\ exit' = n.exit
             /\ err' = n.err
             /\ IF n.pc = "reading"
                THEN transport' = transport
                ELSE transport' \in TransportAfterExit(FALSE)
             /\ shadow' = IF Ignorable(l) THEN shadow ELSE Consume(shadow, l)
             /\ js' = ConsumeJs(js, l)
             /\ extract' = ConsumeExtract(extract, l)
    /\ prev_text' = full_text
    /\ prev_citations' = citations
    /\ UNCHANGED <<status_code, requests_issued, citation_matches, idx, printed>>

\* The loop goes back to iter_lines().  line and data are dead from here to
\* their next assignment, so they are forgotten, and with them prev_text and
\* prev_citations, the text and registry the last pass started from.
Continue ==
    /\ pc = "after"
    /\ op' = "Continue"
    /\ UNCHANGED <<stream, pos, chunk_count>>
    /\ pc' = "reading"
    /\ line' = NoLine
    /\ data' = NoData
    /\ prev_text' = NoData
    /\ prev_citations' = NoData
    /\ shadow' = [shadow EXCEPT !.data = NoData]
    /\ js' = [js EXCEPT !.data = NoData]
    /\ extract' = [extract EXCEPT !.data = NoData]
    /\ UNCHANGED <<status_code, requests_issued, transport, full_text, citations, result, exit, err,
                   citation_matches, idx, printed>>

\* iter_lines() is exhausted: the transport closed.
StreamEnd ==
    /\ pc = "reading"
    /\ op' = "StreamEnd"
    /\ UNCHANGED <<stream, pos, chunk_count>>
    /\ LET n == EndOfStream(Locals)
       IN  /\ pc' = n.pc
           /\ result' = n.result
           /\ exit' = n.exit
    /\ shadow' = EndOfStream(shadow)
    /\ js' = EndOfStream(js)
    /\ extract' = EndOfStream(extract)
    /\ transport' \in TransportAfterExit(TRUE)
    /\ UNCHANGED <<status_code, requests_issued, line, data, full_text, citations, prev_text,
                   prev_citations, err,
                   citation_matches, idx, printed>>

\* citation_matches = re.findall(r'\[(\d+)\]', result["text"])
Findall ==
    /\ pc = "returned"
    /\ op' = "Findall"
    /\ UNCHANGED <<stream, pos, chunk_count>>
    /\ IF result.text.t /= "str"
       THEN pc' = "failed" /\ err' = "TypeError" /\ UNCHANGED <<citation_matches, idx>>
       ELSE /\ pc' = "resolving"
            /\ citation_matches' = findall(result.text.v)
            /\ idx' = 1
            /\ err' = err
    /\ UNCHANGED <<status_code, requests_issued, transport, line, data, full_text,
                   citations, prev_text, prev_citations, result,
                   exit, printed, shadow, js, extract>>

\* One pass of: for citation_id in citation_matches:
\*     if citation_id in result["citations"]: print(title, url)
LookupStep ==
    /\ pc = "resolving"
    /\ idx <= Len(citation_matches)
    /\ op' = "LookupStep"
    /\ UNCHANGED <<stream, pos, chunk_count>>
    /\ LET citation_id == citation_matches[idx]
           key == JStr(citation_id)
       IN  IF key \notin DOMAIN result.citations
           THEN pc' = pc /\ err' = err /\ printed' = printed /\ idx' = idx + 1
           ELSE LET citation == result.citations[key]
                IN  IF "title" \notin DOMAIN citation \/ "url" \notin DOMAIN citation
                    THEN pc' = "failed" /\ err' = "KeyError" /\ UNCHANGED <<printed, idx>>
                    ELSE /\ printed' = Append(printed,
                                [marker |-> citation_id, title |-> citation["title"],
                                 url |-> citation["url"]])
                         /\ idx' = idx + 1
                         /\ pc' = pc /\ err' = err
    /\ UNCHANGED <<status_code, requests_issued, transport, line, data, full_text,
                   citations, prev_text, prev_citations, result,
                   exit, citation_matches, shadow, js, extract>>

\* The loop over the matches is over: return True.
Finish ==
    /\ pc = "resolving"
    /\ idx > Len(citation_matches)
    /\ op' = "Finish"
    /\ UNCHANGED <<stream, pos, chunk_count>>
    /\ pc' = "passed"
    /\ UNCHANGED <<status_code, requests_issued, transport, line, data, full_text,
                   citations, prev_text, prev_citations, result,
                   exit, err, citation_matches, idx, printed, shadow, js, extract>>

Next == Post \/ ReadLine \/ Continue \/ StreamEnd \/ Findall \/ LookupStep \/ Finish

Spec == Init /\ [][Next]_vars

-----------------------------------------------------------------------------
(* The citation extraction and lookup on every text up to MaxTextLen and     *)
(* every registry the consumer can build from Results: the states right      *)
(* after the return of a stream that closed with that text and registry.     *)

ResolveChars == {"[", "]", "1", "x"}

ResolveTexts == {JNull} \cup {JStr(s) : s \in SeqsUpTo(ResolveChars, MaxTextLen)}

ResultIds == {r["id"] : r \in {x \in Results : "id" \in DOMAIN x}}

Registries ==
    {c \in UNION {[K -> Results] : K \in SUBSET ResultIds} :
        \A k \in DOMAIN c : "id" \in DOMAIN c[k] /\ c[k]["id"] = k}

InitResolve ==
    /\ pc = "returned"
    /\ op = "StreamEnd"
    /\ status_code = 200
    /\ requests_issued = 1
    /\ transport = "released"
    /\ line = NoLine
    /\ data = NoData
    /\ full_text \in ResolveTexts
    /\ citations \in Registries
    /\ prev_text = NoData
    /\ prev_citations = NoData
    /\ result = ReturnOnClose(full_text, citations)
    /\ exit = "closed"
    /\ err = NoError
    /\ citation_matches = <<>>
    /\ idx = 0
    /\ printed = <<>>
    /\ shadow = Locals
    /\ js = Locals
    /\ extract = Locals
    /\ stream = <<>>
    /\ pos = 0
    /\ chunk_count = 0

NextResolve == Findall \/ LookupStep \/ Finish

SpecResolve == InitResolve /\ [][NextResolve]_vars

-----------------------------------------------------------------------------
(* test_response_format *)

\* if chunk_count >= 3: break
ChunkLimit == 3

SourceS == JStr(<<"s">>)
SnippetText == JStr(<<"t">>)

\* A snippet object with the fields that are not Absent.
Snippet(pre, text, post) == JObj(Dict([pre |-> pre, text |-> text, post |-> post]))

\* A search result of the response format.
FormatResult(title, snippet) ==
    Dict([id |-> Id1, snippet |-> snippet, source |-> SourceS, url |-> UrlU,
          title |-> title, metadata |-> JObj(EmptyDict)])

GoodResult == FormatResult(TitleA, Snippet(SnippetText, SnippetText, SnippetText))
ResultNoTitle == FormatResult(Absent, Snippet(SnippetText, SnippetText, SnippetText))
ResultBadSnippet == FormatResult(TitleA, Snippet(SnippetText, SnippetText, Absent))

\* Events of the stream: two that have every field, one without each of the
\* required fields, one whose second result has no title and one whose
\* snippet has no post.
FormatEvents ==
    { StreamEvent(JStr(TextA), JList(<<GoodResult>>), JBool(FALSE)),
      StreamEvent(JStr(TextA), JList(<<>>), JBool(TRUE)),
      StreamEvent(JStr(TextA), JList(<<GoodResult>>), Absent),
      StreamEvent(Absent, JList(<<GoodResult>>), JBool(FALSE)),
      StreamEvent(JStr(TextA), Absent, JBool(FALSE)),
      StreamEvent(JStr(TextA), JList(<<GoodResult, ResultNoTitle>>), JBool(FALSE)),
      StreamEvent(JStr(TextA), JList(<<ResultBadSnippet>>), JBool(FALSE)) }

\* The lines of the stream: the events, a line that is not JSON and an
\* empty line.
FormatLines ==
    {Line(DataPrefix, JObj(e)) : e \in FormatEvents}
        \cup {Line(DataPrefix, BadJson), Line(<<>>, NoPayload)}

NoReport == [msg |-> "none"]

\* for field in fields: if field not in d -- the index of the first field
\* of the list that d lacks, 0 when it has them all.
FirstMissing(fields, d) ==
    LET bad == {i \in 1..Len(fields) : fields[i] \notin DOMAIN d}
    IN  IF bad = {} THEN 0 ELSE CHOOSE i \in bad : \A j \in bad : i <= j

required_fields == <<"isDone", "updatedText", "search_results">>
result_fields == <<"id", "snippet", "source", "url", "title", "metadata">>
snippet_fields == <<"pre", "text", "post">>

\* for result in data['search_results']: the fields of the result, then
\* those of its snippet; what is printed at the first one that is missing.
RECURSIVE ValidateResults(_)
ValidateResults(rs) ==
    IF rs = <<>> THEN NoReport
    ELSE LET r == Head(rs)
             m == FirstMissing(result_fields, r)
         IN  IF m /= 0
             THEN [msg |-> "Missing search result field", field |-> result_fields[m]]
             ELSE LET k == FirstMissing(snippet_fields, r["snippet"].v)
                  IN  IF k /= 0
                      THEN [msg |-> "Missing snippet field", field |-> snippet_fields[k]]
                      ELSE ValidateResults(Tail(rs))

\* The validation with the check of the required fields alone.
Validate_RequiredOnly(d) ==
    LET m == FirstMissing(required_fields, d)
    IN  IF m /= 0 THEN [msg |-> "Missing required field", field |-> required_fields[m]]
        ELSE NoReport

\* The validation of one chunk: what is printed before return False, or
\* NoReport.
Validate(d) ==
    LET m == FirstMissing(required_fields, d)
    IN  IF m /= 0 THEN [msg |-> "Missing required field", field |-> required_fields[m]]
        ELSE IF Truthy(d["search_results"]) THEN ValidateResults(d["search_results"].v)
        ELSE NoReport

InitFormat ==
    /\ pc = "start"
    /\ op = "Init"
    /\ status_code = 0
    /\ requests_issued = 0
    /\ transport = "none"
    /\ line = NoLine
    /\ data = NoData
    /\ full_text = JStr(<<>>)
    /\ citations = EmptyDict
    /\ prev_text = NoData
    /\ prev_citations = NoData
    /\ result = NoResult
    /\ exit = "none"
    /\ err = NoError
    /\ citation_matches = <<>>
    /\ idx = 0
    /\ printed = <<>>
    /\ shadow = Locals
    /\ js = Locals
    /\ extract = Locals
    /\ stream \in SeqsUpTo(FormatLines, MaxStream)
    /\ pos = 0
    /\ chunk_count = 0

\* response = requests.post(...); response.raise_for_status(); chunk_count = 0
PostFormat ==
    /\ pc = "start"
    /\ op' = "PostFormat"
    /\ \E code \in StatusCodes :
         /\ status_code' = code
         /\ IF RaiseForStatus(code)
            THEN /\ pc' = "failed" /\ err' = "HTTPError"
                 /\ transport' \in TransportAfterExit(FALSE)
            ELSE /\ pc' = "checking" /\ err' = err
                 /\ transport' = "open"
    /\ requests_issued' = requests_issued + 1
    /\ chunk_count' = 0
    /\ UNCHANGED <<line, data, full_text, citations, prev_text, prev_citations,
                   result, exit, citation_matches, idx, printed, shadow, js,
                   extract, stream, pos>>

\* One pass of the loop of line 199 on the next line of the stream: parse,
\* count, validate, and leave the loop at the third chunk.
CheckLine ==
    /\ pc = "checking"
    /\ pos < Len(stream)
    /\ op' = "CheckLine"
    /\ pos' = pos + 1
    /\ line' = stream[pos + 1]
    /\ LET l == stream[pos + 1]
           parsed == json_loads(Slice6(l))
       IN  IF ~IsPayloadLine(l)
           THEN UNCHANGED <<pc, data, err, chunk_count, printed, transport>>
           ELSE IF parsed = DecodeError
           THEN /\ pc' = "failed" /\ err' = "JSONDecodeError"
                /\ transport' \in TransportAfterExit(FALSE)
                /\ UNCHANGED <<data, chunk_count, printed>>
           ELSE /\ data' = parsed
                /\ chunk_count' = chunk_count + 1
                /\ err' = err
                /\ LET report == Validate(parsed.v)
                   IN  IF report /= NoReport
                       THEN /\ pc' = "failed"
                            /\ printed' = Append(printed, report)
                            /\ transport' \in TransportAfterExit(FALSE)
                       ELSE /\ printed' = printed
                            /\ IF chunk_count + 1 >= ChunkLimit
                               THEN /\ pc' = "passed"
                                    /\ transport' \in TransportAfterExit(FALSE)
                               ELSE /\ pc' = pc
                                    /\ transport' = transport
    /\ UNCHANGED <<status_code, requests_issued, full_text, citations, prev_text,
                   prev_citations, result, exit, citation_matches, idx, shadow,
                   js, extract, stream>>

\* iter_lines() is exhausted: return True.
CheckEnd ==
    /\ pc = "checking"
    /\ pos = Len(stream)
    /\ op' = "CheckEnd"
    /\ pc' = "passed"
    /\ transport' \in TransportAfterExit(TRUE)
    /\ UNCHANGED <<status_code, requests_issued, line, data, full_text, citations,
                   prev_text, prev_citations, result, exit, err, citation_matches,
                   idx, printed, shadow, js, extract, stream, pos, chunk_count>>

NextFormat == PostFormat \/ CheckLine \/ CheckEnd

SpecFormat == InitFormat /\ [][NextFormat]_vars

-----------------------------------------------------------------------------
(* The properties *)

\* The line is a 'data: ' line whose payload is a JSON object.
CarriesEvent(l) == l /= NoLine /\ ~Ignorable(l) /\ l.payload.t = "obj"

\* The event of such a line.
EventOf(l) == l.payload.v

\* The event's isDone is true.
DoneEvent(l) ==
    CarriesEvent(l) /\ "isDone" \in DOMAIN EventOf(l) /\ EventOf(l)["isDone"] = JBool(TRUE)

\* The search results of the event, <<>> when it has none.
ResultsOf(l) ==
    LET sr == Get(EventOf(l), "search_results", JNull)
    IN  IF sr.t = "list" THEN sr.v ELSE <<>>

\* The event holds a search result of id k.
SuppliesId(l, k) ==
    \E i \in 1..Len(ResultsOf(l)) :
        "id" \in DOMAIN ResultsOf(l)[i] /\ ResultsOf(l)[i]["id"] = k

\* C1 (snapshot overwrite): after every processed event that has an
\* updatedText, the accumulated text is exactly that updatedText; it is not
\* the text held before followed by it.
C1_SnapshotOverwrite ==
    (op = "ReadLine" /\ CarriesEvent(line) /\ "updatedText" \in DOMAIN EventOf(line)) =>
        /\ full_text = EventOf(line)["updatedText"]
        /\ (prev_text.t = "str" /\ prev_text.v /= <<>> /\ full_text.t = "str") =>
               full_text.v /= prev_text.v \o EventOf(line)["updatedText"].v

\* An event with text "x[7][1]" was processed while the text was "[1]".
C1_Witness ==
    /\ op = "ReadLine" /\ pc = "after"
    /\ CarriesEvent(line) /\ "updatedText" \in DOMAIN EventOf(line)
    /\ prev_text = JStr(TextA)
    /\ full_text = JStr(TextB)

\* C2 (early termination): the loop never goes on after an event whose
\* isDone is true; what is returned on it is the text of that event and the
\* registry right after its results were stored; and from then on no line is
\* read and text, registry and returned value stay as they are.
C2_EarlyTermination ==
    /\ [](op = "ReadLine" /\ DoneEvent(line) => pc \in {"returned", "failed"})
    /\ [](exit = "isDone" =>
            /\ DoneEvent(line)
            /\ result.text = Get(EventOf(line), "updatedText", JStr(<<>>))
            /\ result.text = full_text
            /\ result.citations = citations
            /\ \A i \in 1..Len(ResultsOf(line)) :
                   /\ ResultsOf(line)[i]["id"] \in DOMAIN result.citations
                   /\ \E j \in i..Len(ResultsOf(line)) :
                          result.citations[ResultsOf(line)[i]["id"]] = ResultsOf(line)[j])
    /\ [][exit = "isDone" =>
            /\ op' /= "ReadLine"
            /\ line' = line
            /\ full_text' = full_text
            /\ citations' = citations
            /\ result' = result]_vars

\* The stream ended on an event with isDone true that brought the text
\* "x[7][1]" and the result of id "7" itself.
C2_Witness ==
    /\ exit = "isDone" /\ pc = "returned"
    /\ result.text = JStr(TextB)
    /\ prev_text = JStr(TextA)
    /\ Id7 \notin DOMAIN prev_citations
    /\ Id7 \in DOMAIN result.citations

\* C3 (registry monotonicity): no step removes a key of the registry, and a
\* step changes the value under a key only if it processes an event that
\* holds a search result of that id.
C3_RegistryMonotonic ==
    [][/\ DOMAIN citations \subseteq DOMAIN citations'
       /\ \A k \in DOMAIN citations :
              citations'[k] /= citations[k] =>
                  op' = "ReadLine" /\ CarriesEvent(line') /\ SuppliesId(line', k)]_vars

\* With two keys in the registry, an event replaced the value under "1" and
\* left the one under "7".
C3_Witness ==
    /\ pc = "after"
    /\ DOMAIN prev_citations = {Id1, Id7}
    /\ DOMAIN citations = {Id1, Id7}
    /\ citations[Id1] /= prev_citations[Id1]
    /\ citations[Id7] = prev_citations[Id7]

\* C4 (degraded completion returns the partial state): when the transport
\* closes before any isDone, the consumer raises nothing and returns the text
\* and the registry accumulated so far.
C4_DegradedReturnsPartial ==
    exit = "closed" =>
        /\ result = [text |-> full_text, citations |-> citations]
        /\ op = "StreamEnd" => pc = "returned" /\ err = NoError

\* The transport closed after events that left the text "[1]" and one
\* citation.
C4_Witness ==
    /\ op = "StreamEnd" /\ exit = "closed"
    /\ result.text = JStr(TextA)
    /\ DOMAIN result.citations = {Id1}

\* C5 (degraded completion is distinguishable): the returned value carries
\* a done flag, false when the transport closed before any isDone and true
\* when the stream ended on isDone, so the value returned on isDone differs
\* from the one returned on close for the same text and registry.
C5_DoneFlagDistinguishes ==
    exit /= "none" =>
        /\ "done" \in DOMAIN result
        /\ result["done"] = (exit = "isDone")
        /\ ReturnOnDone(full_text, citations) /= ReturnOnClose(full_text, citations)

\* The consumer on the stream without its ignorable lines is where the
\* consumer on the whole stream is.
ShadowAgrees ==
    /\ shadow.full_text = full_text
    /\ shadow.citations = citations
    /\ shadow.data = data
    /\ shadow.result = result
    /\ shadow.exit = exit
    /\ shadow.pc = "reading" <=> pc \in {"reading", "after"}
    /\ shadow.pc = "failed" => pc = "failed" /\ err = shadow.err
    /\ shadow.pc = "returned" => pc \in {"returned", "resolving", "passed", "failed"}

\* C6 (non-payload lines are ignored): reading a line that is empty or does
\* not begin with 'data: ' changes neither text nor registry nor the
\* termination status and raises nothing, and at every point the consumer
\* is where it would be on the stream with these lines removed.
C6_NonPayloadIgnored ==
    /\ []ShadowAgrees
    /\ [][(op' = "ReadLine" /\ Ignorable(line')) =>
            /\ pc' = "after"
            /\ full_text' = full_text
            /\ citations' = citations
            /\ result' = result
            /\ exit' = exit
            /\ err' = err]_vars

\* The line data:{...} without the space, carrying an event with isDone
\* true and another text, was read while text and registry were not empty,
\* and the loop goes on.
C6_Witness ==
    /\ pc = "after"
    /\ line \in OtherLines /\ line.payload.t = "obj"
    /\ full_text = JStr(TextA)
    /\ DOMAIN citations = {Id1, Id7}

\* C7 (a malformed event is per-line): after a 'data: ' line whose payload
\* is not JSON, nothing is raised out of the consumer, the loop goes on with
\* the next line, and text and registry are the ones held before the line.
C7_MalformedIsPerLine ==
    (op = "ReadLine" /\ line /= NoLine /\ ~Ignorable(line)
        /\ line.payload.t \in {"none", "bad"}) =>
        /\ pc = "after"
        /\ err = NoError
        /\ full_text = prev_text
        /\ citations = prev_citations

\* The text between i and j is a marker: "[", one or more digits, "]".
MarkerAt(s, i, j) ==
    /\ i + 1 < j
    /\ s[i] = "["
    /\ s[j] = "]"
    /\ \A k \in (i + 1)..(j - 1) : IsDigit(s[k])

\* The occurrences of markers in s.
Occurrences(s) == {o \in (1..Len(s)) \X (1..Len(s)) : MarkerAt(s, o[1], o[2])}

\* The extraction has run.
Extracted == pc \in {"resolving", "passed"} \/ (pc = "failed" /\ op = "LookupStep")

C9_UnresolvedReported ==
    pc = "passed" =>
        \A n \in 1..Len(citation_matches) :
            JStr(citation_matches[n]) \notin DOMAIN result.citations =>
                \E k \in 1..Len(printed) : printed[k].marker = citation_matches[n]

\* C10 (resolution never errors): the lookup of a marker raises nothing,
\* whatever fields the registry entry has.
C10_ResolutionNeverRaises == ~(op = "LookupStep" /\ pc = "failed")

\* C12 (lenient mode skips an invalid event): after an event without
\* updatedText the text, the registry and the termination status are the
\* ones held before it, and the loop goes on with the next line.
C12_LenientSkipsInvalid ==
    (op = "ReadLine" /\ CarriesEvent(line) /\ "updatedText" \notin DOMAIN EventOf(line)) =>
        /\ pc = "after"
        /\ full_text = prev_text
        /\ citations = prev_citations

\* The markers of s from left to right.
MarkersInOrder(s) ==
    LET occ == Occurrences(s)
    IN  [n \in 1..Cardinality(occ) |->
            LET o == CHOOSE q \in occ : Cardinality({r \in occ : r[1] < q[1]}) = n - 1
            IN  SubSeq(s, o[1] + 1, o[2] - 1)]

\* The entry printed for marker m from registry reg.
EntryOf(reg, m) ==
    [marker |-> m, title |-> reg[JStr(m)]["title"], url |-> reg[JStr(m)]["url"]]

\* Marker m is a key of reg whose entry lacks a title or a url.
Broken(reg, m) ==
    /\ JStr(m) \in DOMAIN reg
    /\ ~({"title", "url"} \subseteq DOMAIN reg[JStr(m)])

\* What extraction and lookup give for a text and a registry: the matches,
\* the printed entries and whether the lookup raised.
ResolutionOf(text, reg) ==
    LET ms == MarkersInOrder(text)
        bad == {n \in 1..Len(ms) : Broken(reg, ms[n])}
        stop == IF bad = {} THEN Len(ms) + 1
                ELSE CHOOSE n \in bad : \A k \in bad : n <= k
        IsKey(m) == JStr(m) \in DOMAIN reg
        found == SelectSeq(SubSeq(ms, 1, stop - 1), IsKey)
    IN  [matches |-> ms,
         printed |-> [k \in 1..Len(found) |-> EntryOf(reg, found[k])],
         raised |-> bad /= {}]

\* C13 (idempotent resolution): extraction and lookup change neither the
\* text nor the registry they were given, and what they yield (matches,
\* printed entries, raised or not) is a function of that text and registry
\* alone, so a second run on the same pair yields the same.
C13_IdempotentResolution ==
    /\ [][(pc \in {"returned", "resolving"}) =>
            (result' = result /\ full_text' = full_text /\ citations' = citations)]_vars
    /\ []((op \in {"LookupStep", "Finish"} /\ pc \in {"passed", "failed"}) =>
            LET r == ResolutionOf(result.text.v, result.citations)
            IN  /\ citation_matches = r.matches
                /\ printed = r.printed
                /\ (pc = "failed") = r.raised)

\* The lookup is over on a text with the marker "1" twice, resolved both
\* times from a registry that also holds the id "7".
C13_Witness ==
    /\ pc = "passed"
    /\ citation_matches = << <<"1">>, <<"1">> >>
    /\ Len(printed) = 2
    /\ printed[1] = printed[2]
    /\ DOMAIN result.citations = {Id1, Id7}
    /\ citations = result.citations

\* C17 (exact string-key lookup): every extracted marker is a run of ASCII
\* digits, and a marker is printed as resolved only if the registry has
\* a key that is the very same string.
C17_ExactAsciiMarkers ==
    Extracted =>
        /\ \A n \in 1..Len(citation_matches) :
               /\ citation_matches[n] /= <<>>
               /\ \A i \in 1..Len(citation_matches[n]) :
                      citation_matches[n][i] \in AsciiDigits
        /\ \A k \in 1..Len(printed) : JStr(printed[k].marker) \in DOMAIN result.citations

\* The event has no search results: the key is absent, null or [].
NoResults(l) ==
    /\ CarriesEvent(l)
    /\ Get(EventOf(l), "search_results", Absent) \in {Absent, JNull, JList(<<>>)}

\* C20 (events without results leave the registry untouched): after an
\* event whose search_results is absent, null or empty the registry is the
\* one held before it, the text is the updatedText of the event ('' when it
\* has none), and the loop ends there if isDone is true (returning when the
\* text is a string) and goes on if not.
C20_NoResultsKeepsRegistry ==
    (op = "ReadLine" /\ NoResults(line)) =>
        /\ citations = prev_citations
        /\ full_text = Get(EventOf(line), "updatedText", JStr(<<>>))
        /\ IF DoneEvent(line)
           THEN /\ pc \in {"returned", "failed"}
                /\ full_text.t = "str" => pc = "returned" /\ exit = "isDone"
           ELSE pc = "after" /\ err = NoError

\* An event with isDone and null results ended the stream: the text was
\* replaced and the two citations were kept.
C20_Witness ==
    /\ op = "ReadLine" /\ pc = "returned"
    /\ CarriesEvent(line)
    /\ Get(EventOf(line), "search_results", Absent) = JNull
    /\ prev_text = JStr(TextA)
    /\ full_text = JStr(TextB)
    /\ DOMAIN citations = {Id1, Id7}

\* C14 (transport released on every exit path): once the consumer has been
\* left, by the return on isDone, by the return on close or by an error, the
\* connection of the response has been released.
C14_TransportReleased ==
    pc \in {"returned", "resolving", "passed", "failed"} => transport = "released"

\* C18 (non-2xx response fails fast): a response whose status is not 2xx
\* makes the request step fail with an error before any line is read, with
\* exactly one request issued.
C18_Non2xxFailsFast ==
    (status_code /= 0 /\ ~(200 <= status_code /\ status_code < 300)) =>
        /\ pc = "failed" /\ op = "Post" /\ err = "HTTPError"
        /\ line = NoLine
        /\ requests_issued = 1

\* C18 amended: a response whose status is a client or server error
\* (400..599) makes the request step fail with HTTPError before any line is
\* read: nothing is parsed, returned or printed and the test is failed; and
\* whatever the status, one request has been issued.
C18_ErrorStatusFailsFast ==
    /\ pc /= "start" => requests_issued = 1
    /\ status_code >= 400 =>
        /\ pc = "failed" /\ op = "Post" /\ err = "HTTPError"
        /\ line = NoLine /\ data = NoData
        /\ result = NoResult /\ exit = "none"
        /\ citation_matches = <<>> /\ printed = <<>>

\* The server answered 404 and the test failed at the request.
C18_Witness ==
    status_code = 404 /\ pc = "failed" /\ err = "HTTPError" /\ requests_issued = 1

\* The results of rs the loop reaches: those before the first one without
\* an id.
Reached(rs) ==
    LET bad == {i \in 1..Len(rs) : "id" \notin DOMAIN rs[i]}
    IN  IF bad = {} THEN rs
        ELSE SubSeq(rs, 1, (CHOOSE i \in bad : \A j \in bad : i <= j) - 1)

\* The registry prev after the results ps arrived: under each id of ps the
\* result of greatest position with that id, under every other id of prev
\* what prev holds.
LastWrite(prev, ps) ==
    LET ids == {ps[i]["id"] : i \in 1..Len(ps)}
    IN  [k \in DOMAIN prev \cup ids |->
            IF k \in ids
            THEN ps[CHOOSE i \in 1..Len(ps) :
                        /\ ps[i]["id"] = k
                        /\ \A j \in (i + 1)..Len(ps) : ps[j]["id"] /= k]
            ELSE prev[k]]

\* C15 (last-write-wins registry): the registry is empty when the stream
\* starts; a line that carries no event leaves it as it is; and after an
\* event it holds, under every id the event brought, the last result of the
\* event with that id, and under every other id what it held before.  So
\* its keys are the ids seen so far and each maps to the last result that
\* carried it, by arrival of the events and then position in the event.
C15_LastWriteWins ==
    /\ op = "Post" => citations = EmptyDict
    /\ (op = "ReadLine" /\ ~CarriesEvent(line)) => citations = prev_citations
    /\ (op = "ReadLine" /\ CarriesEvent(line)) =>
           citations = LastWrite(prev_citations, Reached(ResultsOf(line)))
    /\ \A k \in DOMAIN citations : citations[k]["id"] = k

\* The registry held a result of id "1"; an event brought two more results
\* of that id and the registry now holds the second of them.
C15_Witness ==
    /\ op = "ReadLine" /\ pc = "after"
    /\ CarriesEvent(line)
    /\ Len(ResultsOf(line)) = 2
    /\ ResultsOf(line)[1] = SearchResult(Id1, Absent, UrlU)
    /\ ResultsOf(line)[2] = SearchResult(Id1, TitleA, UrlU)
    /\ Id1 \in DOMAIN prev_citations
    /\ prev_citations[Id1] = ResultsOf(line)[1]
    /\ citations[Id1] = ResultsOf(line)[2]

\* C19 (the three copies of the consumer are equivalent): on every sequence
\* of lines the loops of stream_searchify_response, of
\* stream_searchify_response_js_style and of test_citation_extraction raise
\* on the same lines and hold the same text and the same registry.
C19_CopiesEquivalent ==
    op \in {"ReadLine", "StreamEnd"} =>
        /\ (pc = "failed") = (js.pc = "failed")
        /\ (pc = "failed") = (extract.pc = "failed")
        /\ js.full_text = full_text /\ extract.full_text = full_text
        /\ js.citations = citations /\ extract.citations = citations

\* C11 (strict schema check locates the failure): when test_response_format
\* fails on an event that lacks a required field, what it reports holds
\* the position of that event in the stream besides the name of the field.
C11_ReportsIndex ==
    (op = "CheckLine" /\ pc = "failed" /\ err = NoError) =>
        /\ printed /= <<>>
        /\ "index" \in DOMAIN printed[Len(printed)]
        /\ printed[Len(printed)].index \in {pos, chunk_count}

\* The fields of list fs are all in d.
HasAll(fs, d) == \A i \in 1..Len(fs) : fs[i] \in DOMAIN d

\* The event satisfies the schema: it has the required fields, each of its
\* search results has the result fields and each snippet the snippet fields.
SchemaValid(ev) ==
    /\ HasAll(required_fields, ev)
    /\ \A i \in 1..Len(ResultsOf(Line(DataPrefix, JObj(ev)))) :
           LET r == ResultsOf(Line(DataPrefix, JObj(ev)))[i]
           IN  /\ HasAll(result_fields, r)
               /\ HasAll(snippet_fields, r["snippet"].v)

\* The positions of the 'data: ' lines of the stream.
DataPositions == {i \in 1..Len(stream) : ~Ignorable(stream[i])}

\* Line i of the stream is a data line that is not JSON or whose event
\* violates the schema.
Violates(i) ==
    /\ i \in DataPositions
    /\ ~(CarriesEvent(stream[i]) /\ SchemaValid(EventOf(stream[i])))

\* The positions of the first ChunkLimit 'data: ' lines.
FirstChunks ==
    {i \in DataPositions : Cardinality({j \in DataPositions : j < i}) < ChunkLimit}

\* The test is over and the server had answered without an error status.
FormatOver == pc \in {"passed", "failed"} /\ ~RaiseForStatus(status_code)

\* C16 (schema validation covers each event): test_response_format returns
\* True only if no data event of the stream violates the schema.
C16_CoversEachEvent ==
    (FormatOver /\ pc = "passed") => \A i \in 1..Len(stream) : ~Violates(i)

\* C16 amended: the validation covers the first three data events.  The
\* test returns False if and only if one of the first three 'data: ' lines
\* is not JSON or violates the schema, and then it stopped at the first such
\* line; it returns True otherwise, whatever the later events hold.
C16_CoversFirstChunks ==
    FormatOver =>
        /\ (pc = "failed") = (\E i \in FirstChunks : Violates(i))
        /\ pc = "failed" =>
               /\ Violates(pos)
               /\ \A i \in FirstChunks : Violates(i) => pos <= i
        /\ pc = "passed" =>
               chunk_count = Cardinality(FirstChunks)

\* The test passed on a stream of four data events the fourth of which
\* has no updatedText.
C16_Witness ==
    /\ FormatOver /\ pc = "passed"
    /\ chunk_count = 3
    /\ Len(stream) = 4
    /\ DataPositions = 1..4
    /\ CarriesEvent(stream[4])
    /\ "updatedText" \notin DOMAIN EventOf(stream[4])

====
